---------------------------- MODULE Spec2Model ----------------------------
(***************************************************************************)
(* A model of rustgo: the 19x19 board, the group / liberty / capture /     *)
(* suicide algorithms of the Board trait, the AGA rules state machine      *)
(* (GameState, Action::test, Action::execute) and the generic action tree  *)
(* (Game::insert, Game::get_state).                                        *)
(*                                                                         *)
(* Values.  A Position19x19 {x, y} is the pair <<x, y>>.  A Stone is one   *)
(* of "Black", "White", "Empty"; a Player is "PlayerBlack" or              *)
(* "PlayerWhite".  A board (the array state[y][x]) is the pair of the set   *)
(* of positions that hold Stone::Black and the set of those that hold      *)
(* Stone::White: every other cell holds Stone::Empty, and two boards are   *)
(* equal exactly when the arrays are.                                      *)
(* An enum value with a payload is a tuple whose head is the variant name. *)
(***************************************************************************)
EXTENDS Naturals, Sequences, FiniteSets, TLC

\* ------------------------------------------------------------------------
\* Program constants
\* ------------------------------------------------------------------------

\* Board19x19::on_board: position.x < 19 && position.y < 19
BoardSize == 19

\* Board19x19::neighbors: position.x < 18, position.y < 18
LastLine == 18

\* ------------------------------------------------------------------------
\* Stone, Player
\* ------------------------------------------------------------------------

Black == "Black"
White == "White"
Empty == "Empty"

PlayerBlack == "PlayerBlack"
PlayerWhite == "PlayerWhite"

Players == {PlayerBlack, PlayerWhite}

\* Player::other
other(player) == IF player = PlayerBlack THEN PlayerWhite ELSE PlayerBlack

\* Player::stone
stone(player) == IF player = PlayerBlack THEN Black ELSE White

Range(s) == {s[i] : i \in 1..Len(s)}

\* ------------------------------------------------------------------------
\* Board19x19
\* ------------------------------------------------------------------------

\* Board19x19::new: every cell Stone::Empty
BoardNew == [black |-> {}, white |-> {}]

\* Board19x19::on_board
on_board(position) == position[1] < BoardSize /\ position[2] < BoardSize

\* Board19x19::at (indexing state[y][x]; only defined on the board)
at(board, position) ==
    IF position \in board.black THEN Black
    ELSE IF position \in board.white THEN White
    ELSE Empty

\* Board19x19::set (state[y][x] = stone)
set(board, position, st) ==
    [black |-> IF st = Black THEN board.black \cup {position}
               ELSE board.black \ {position},
     white |-> IF st = White THEN board.white \cup {position}
               ELSE board.white \ {position}]

\* for captured_stone in &captured_stones { board.set(captured_stone, &Empty) }
set_all_empty(board, captured_stones) ==
    [black |-> board.black \ captured_stones,
     white |-> board.white \ captured_stones]

\* Board19x19::set_handicap (one step of it: self.set(.., &Stone::Black))
set_black(board, cond, position) ==
    IF cond THEN set(board, position, Black) ELSE board

\* A placement whose first test has no lower limit: stones <= 9
set_handicap_no_lower_limit(board, stones) ==
    LET b1 == set_black(set_black(board, stones <= 9, <<14, 4>>),
                        stones <= 9, <<4, 14>>)
        b2 == set_black(b1, 3 <= stones /\ stones <= 9, <<14, 14>>)
        b3 == set_black(b2, 4 <= stones /\ stones <= 9, <<4, 4>>)
        b4 == set_black(b3, stones = 5 \/ stones = 7 \/ stones = 9, <<10, 10>>)
        b5 == set_black(set_black(b4, 6 <= stones /\ stones <= 9, <<4, 10>>),
                        6 <= stones /\ stones <= 9, <<14, 10>>)
        b6 == set_black(set_black(b5, stones = 8 \/ stones = 9, <<10, 4>>),
                        stones = 8 \/ stones = 9, <<10, 14>>)
    IN b6

\* A placement with the middle stone for every number of stones from five on
set_handicap_middle_from_five(board, stones) ==
    LET b1 == set_black(set_black(board, 2 <= stones /\ stones <= 9, <<14, 4>>),
                        2 <= stones /\ stones <= 9, <<4, 14>>)
        b2 == set_black(b1, 3 <= stones /\ stones <= 9, <<14, 14>>)
        b3 == set_black(b2, 4 <= stones /\ stones <= 9, <<4, 4>>)
        b4 == set_black(b3, 5 <= stones /\ stones <= 9, <<10, 10>>)
        b5 == set_black(set_black(b4, 6 <= stones /\ stones <= 9, <<4, 10>>),
                        6 <= stones /\ stones <= 9, <<14, 10>>)
        b6 == set_black(set_black(b5, stones = 8 \/ stones = 9, <<10, 4>>),
                        stones = 8 \/ stones = 9, <<10, 14>>)
    IN b6

\* Board19x19::set_handicap
set_handicap(board, stones) ==
    LET b1 == set_black(set_black(board, 2 <= stones /\ stones <= 9, <<14, 4>>),
                        2 <= stones /\ stones <= 9, <<4, 14>>)
        b2 == set_black(b1, 3 <= stones /\ stones <= 9, <<14, 14>>)
        b3 == set_black(b2, 4 <= stones /\ stones <= 9, <<4, 4>>)
        b4 == set_black(b3, stones = 5 \/ stones = 7 \/ stones = 9, <<10, 10>>)
        b5 == set_black(set_black(b4, 6 <= stones /\ stones <= 9, <<4, 10>>),
                        6 <= stones /\ stones <= 9, <<14, 10>>)
        b6 == set_black(set_black(b5, stones = 8 \/ stones = 9, <<10, 4>>),
                        stones = 8 \/ stones = 9, <<10, 14>>)
    IN b6

\* Board19x19::positions: for x in 0..19 { for y in 0..19 { push {x, y} } }
positions ==
    [i \in 1..(BoardSize * BoardSize) |->
        <<(i - 1) \div BoardSize, (i - 1) % BoardSize>>]

\* Neighbors with the test of on_board (x < 19, y < 19) in place of the test
\* of the last line
neighbors_below_size(position) ==
    LET x == position[1]
        y == position[2]
    IN (IF x < BoardSize THEN << <<x + 1, y>> >> ELSE << >>)
       \o (IF x > 0 THEN << <<x - 1, y>> >> ELSE << >>)
       \o (IF y < BoardSize THEN << <<x, y + 1>> >> ELSE << >>)
       \o (IF y > 0 THEN << <<x, y - 1>> >> ELSE << >>)

\* Board19x19::neighbors, in the order the code pushes them
neighbors(position) ==
    LET x == position[1]
        y == position[2]
    IN (IF x < LastLine THEN << <<x + 1, y>> >> ELSE << >>)
       \o (IF x > 0 THEN << <<x - 1, y>> >> ELSE << >>)
       \o (IF y < LastLine THEN << <<x, y + 1>> >> ELSE << >>)
       \o (IF y > 0 THEN << <<x, y - 1>> >> ELSE << >>)

\* ------------------------------------------------------------------------
\* Group
\* ------------------------------------------------------------------------

\* Neighbors that are pushed without being put into content
RECURSIVE visit_neighbors_unmarked(_, _, _, _, _, _)
visit_neighbors_unmarked(board, st, ns, i, stack, content) ==
    IF i > Len(ns) THEN [stack |-> stack, content |-> content]
    ELSE LET n == ns[i]
         IN IF at(board, n) # Empty /\ at(board, n) = st /\ n \notin content
            THEN visit_neighbors_unmarked(board, st, ns, i + 1,
                                          Append(stack, n), content)
            ELSE visit_neighbors_unmarked(board, st, ns, i + 1, stack, content)

\* Group::new, the inner loop: for n in &board.neighbors(&top) { .. }
RECURSIVE visit_neighbors(_, _, _, _, _, _)
visit_neighbors(board, st, ns, i, stack, content) ==
    IF i > Len(ns) THEN [stack |-> stack, content |-> content]
    ELSE LET n == ns[i]
         IN IF at(board, n) # Empty /\ at(board, n) = st /\ n \notin content
            THEN visit_neighbors(board, st, ns, i + 1,
                                 Append(stack, n), content \cup {n})
            ELSE visit_neighbors(board, st, ns, i + 1, stack, content)

\* A search that looks at the neighbors of the first position only
group_search_one_step(board, st, stack, content) ==
    IF Len(stack) = 0 THEN content
    ELSE visit_neighbors(board, st, neighbors(stack[Len(stack)]), 1,
                         SubSeq(stack, 1, Len(stack) - 1), content).content

\* Group::new, the worklist loop, counted: the number of positions popped from
\* the stack until it is empty; the count stops once it is over the limit
RECURSIVE group_search_pops(_, _, _, _, _, _)
group_search_pops(board, st, stack, content, pops, limit) ==
    IF Len(stack) = 0 \/ pops > limit THEN pops
    ELSE LET top == stack[Len(stack)]
             r == visit_neighbors(board, st, neighbors(top), 1,
                                  SubSeq(stack, 1, Len(stack) - 1), content)
         IN group_search_pops(board, st, r.stack, r.content, pops + 1, limit)

\* Group::new, the worklist loop: while stack.len() != 0 { pop; .. }
RECURSIVE group_search(_, _, _, _)
group_search(board, st, stack, content) ==
    IF Len(stack) = 0 THEN content
    ELSE LET top == stack[Len(stack)]
             r == visit_neighbors(board, st, neighbors(top), 1,
                                  SubSeq(stack, 1, Len(stack) - 1), content)
         IN group_search(board, st, r.stack, r.content)

\* Group::new
GroupNew(board, position) ==
    IF at(board, position) = Empty
    THEN [positions |-> {}, board |-> board]
    ELSE [positions |-> group_search(board, at(board, position),
                                     <<position>>, {position}),
          board |-> board]

\* Group::contains
contains(group, pos) == pos \in group.positions

\* Group::liberties
liberties(group) ==
    {p \in UNION {Range(neighbors(q)) : q \in group.positions} :
        at(group.board, p) = Empty}

\* Group::stone followed by unwrap_or(Stone::Empty)
group_stone(group) ==
    IF group.positions = {} THEN Empty
    ELSE at(group.board, CHOOSE p \in group.positions : TRUE)

\* ------------------------------------------------------------------------
\* Board trait: groups, captures, suicide
\* ------------------------------------------------------------------------

\* Board::group_at
group_at(board, position) == GroupNew(board, position)

\* Board::groups_with_liberty_at, the loop over the neighbors
RECURSIVE find_groups(_, _, _, _)
find_groups(board, ns, i, found_groups) ==
    IF i > Len(ns) THEN found_groups
    ELSE IF \E k \in 1..Len(found_groups) : contains(found_groups[k], ns[i])
         THEN find_groups(board, ns, i + 1, found_groups)
         ELSE find_groups(board, ns, i + 1,
                          Append(found_groups, GroupNew(board, ns[i])))

\* Board::groups_with_liberty_at
groups_with_liberty_at(board, position) ==
    IF at(board, position) # Empty THEN << >>
    ELSE find_groups(board, neighbors(position), 1, << >>)

\* A capture of every group of the other colour next to the position, whatever
\* its liberties
would_be_captured_any(board, player, position) ==
    LET groups == groups_with_liberty_at(board, position)
    IN UNION {groups[k].positions :
                k \in {j \in 1..Len(groups) :
                          group_stone(groups[j]) # stone(player)}}

\* Board::would_be_captured
would_be_captured(board, player, position) ==
    LET groups == groups_with_liberty_at(board, position)
    IN UNION {groups[k].positions :
                k \in {j \in 1..Len(groups) :
                          /\ group_stone(groups[j]) # stone(player)
                          /\ Cardinality(liberties(groups[j])) = 1}}

\* A loop that answers at the first own group in atari, before it has seen
\* the groups behind it
RECURSIVE suicide_loop_first_atari(_, _, _, _)
suicide_loop_first_atari(groups, i, player, friendly_looses_last_liberty) ==
    IF i > Len(groups) THEN friendly_looses_last_liberty
    ELSE LET n == Cardinality(liberties(groups[i]))
             group_owner == group_stone(groups[i])
         IN IF n = 1 /\ group_owner = stone(other(player)) THEN FALSE
            ELSE IF n = 1 /\ group_owner = stone(player) THEN TRUE
            ELSE IF n > 1 /\ group_owner = stone(player) THEN FALSE
            ELSE suicide_loop_first_atari(groups, i + 1, player,
                    friendly_looses_last_liberty)

\* Board::would_be_suicide, the loop with its early returns
RECURSIVE suicide_loop(_, _, _, _)
suicide_loop(groups, i, player, friendly_looses_last_liberty) ==
    IF i > Len(groups) THEN friendly_looses_last_liberty
    ELSE LET n == Cardinality(liberties(groups[i]))
             group_owner == group_stone(groups[i])
         IN IF n = 1 /\ group_owner = stone(other(player)) THEN FALSE
            ELSE IF n > 1 /\ group_owner = stone(player) THEN FALSE
            ELSE suicide_loop(groups, i + 1, player,
                    friendly_looses_last_liberty
                        \/ (n = 1 /\ group_owner = stone(player)))

\* Board::would_be_suicide
would_be_suicide(board, position, player) ==
    suicide_loop(groups_with_liberty_at(board, position), 1, player, FALSE)

\* ------------------------------------------------------------------------
\* Board trait: area scoring
\* ------------------------------------------------------------------------

\* Board::erode, one step of the for loop: fill empty_positions[i] when a
\* neighbor holds the colour now (the board is filled in place as it goes)
erode_step(board, st, position) ==
    LET ns == neighbors(position)
        any_set == \E k \in 1..Len(ns) : at(board, ns[k]) = st
    IN IF any_set
       THEN [board |-> set(board, position, st), change |-> TRUE]
       ELSE [board |-> board, change |-> FALSE]

\* Board::erode: change stays true once a step of the pass has set it
erode_join(done, step) ==
    [board |-> step.board, change |-> done.change \/ step.change]

\* Board::erode, the for loop over empty_positions[lo..hi], in order: the
\* first half (done), then the second half on the board the first half left.
\* done is the result of the steps before lo.
RECURSIVE erode_pass(_, _, _, _, _)
erode_pass(done, st, empty_positions, lo, hi) ==
    IF lo > hi THEN done
    ELSE IF lo = hi
    THEN erode_join(done, erode_step(done.board, st, empty_positions[lo]))
    ELSE LET mid == (lo + hi) \div 2
             first == erode_pass(done, st, empty_positions, lo, mid)
         IN \* the test is always true: it makes the first half run first
            IF first.change \in BOOLEAN
            THEN erode_pass(first, st, empty_positions, mid + 1, hi)
            ELSE first

\* Board::erode, the while loop (passes counts the passes made so far)
RECURSIVE erode_loop(_, _, _)
erode_loop(board, st, passes) ==
    LET empty_positions == SelectSeq(positions, LAMBDA p : at(board, p) = Empty)
        r == erode_pass([board |-> board, change |-> FALSE], st,
                        empty_positions, 1, Len(empty_positions))
    IN IF r.change THEN erode_loop(r.board, st, passes + 1)
       ELSE [board |-> r.board, passes |-> passes + 1]

\* An erosion that stops after the first pass over the empty positions
erode_one_pass(board, st) ==
    LET empty_positions == SelectSeq(positions, LAMBDA p : at(board, p) = Empty)
    IN erode_pass([board |-> board, change |-> FALSE], st,
                  empty_positions, 1, Len(empty_positions)).board

\* Board::erode
erode(board, st) == erode_loop(board, st, 0).board

\* A scoring that counts a position for a colour only when it is of the colour
\* on the clone eroded with it and not of the other colour on the other clone
area_scoring_exclusive(board) ==
    LET white_board == erode(board, White)
        black_board == erode(board, Black)
        white_score == Cardinality({i \in 1..Len(positions) :
                           /\ at(white_board, positions[i]) = White
                           /\ at(black_board, positions[i]) # Black})
        black_score == Cardinality({i \in 1..Len(positions) :
                           /\ at(black_board, positions[i]) = Black
                           /\ at(white_board, positions[i]) # White})
    IN <<black_score, white_score>>

\* Board::area_scoring: (black_score, white_score)
area_scoring(board) ==
    LET white_board == erode(board, White)
        black_board == erode(board, Black)
        white_score == Cardinality({i \in 1..Len(positions) :
                           \/ at(white_board, positions[i]) = White
                           \/ at(black_board, positions[i]) # Black})
        black_score == Cardinality({i \in 1..Len(positions) :
                           \/ at(black_board, positions[i]) = Black
                           \/ at(white_board, positions[i]) # White})
    IN <<black_score, white_score>>

\* ------------------------------------------------------------------------
\* AGA rules: KoState, GamePhase, GameState
\* ------------------------------------------------------------------------

Running == <<"Running">>
BlackPassed == <<"BlackPassed">>
Ending == <<"Ending">>
EndRequested(player) == <<"EndRequested", player>>
\* An Ended that takes the scores in the other order
Ended_white_first(score_black, score_white) ==
    <<"Ended", score_white, score_black>>

Ended(score_black, score_white) == <<"Ended", score_black, score_white>>

\* Option<Vec<Position>>
None == <<"None">>
Some(v) == <<"Some", v>>

\* A KoState of the move that stores the player who moved
from_move_keeps_player(board, position, player) ==
    LET captured_stones == would_be_captured(board, player, position)
        board_copy == set_all_empty(set(board, position, stone(player)),
                                    captured_stones)
    IN [board |-> board_copy, player |-> player]

\* KoState::from_move
from_move(board, position, player) ==
    LET captured_stones == would_be_captured(board, player, position)
        board_copy == set_all_empty(set(board, position, stone(player)),
                                    captured_stones)
    IN [board |-> board_copy, player |-> other(player)]

\* GameState::new
GameStateNew ==
    [board |-> BoardNew,
     ply |-> 0,
     phase |-> Running,
     dead_stones |-> None,
     ko_states |-> {}]

\* A current player that does not look at the ply
black_to_move(state) == PlayerBlack

\* GameState::current_player
current_player(state) ==
    IF state.ply % 2 = 0 THEN PlayerBlack ELSE PlayerWhite

\* A registration that remembers the latest pair only (mechanical ko)
register_last_ko_state(state) ==
    [state EXCEPT !.ko_states =
        {[board |-> state.board, player |-> current_player(state)]}]

\* GameState::register_ko_state
register_ko_state(state) ==
    [state EXCEPT !.ko_states =
        @ \cup {[board |-> state.board, player |-> current_player(state)]}]

\* A ko test that never fires
never_ko(state, position, player) == FALSE

\* GameState::would_be_ko
would_be_ko(state, position, player) ==
    from_move(state.board, position, player) \in state.ko_states

\* ------------------------------------------------------------------------
\* AGA rules: Action
\* ------------------------------------------------------------------------

Handicap(stones) == [tag |-> "Handicap", stones |-> stones]
Pass(player) == [tag |-> "Pass", player |-> player]
Play(player, position) == [tag |-> "Play", player |-> player, at |-> position]
RequestEnd(player, dead_stones) ==
    [tag |-> "RequestEnd", player |-> player, dead_stones |-> dead_stones]
RejectEnd(player) == [tag |-> "RejectEnd", player |-> player]
AcceptEnd(player) == [tag |-> "AcceptEnd", player |-> player]

\* Action::test, RequestEnd: dead_stones.iter().all(|pos| at(pos) != Empty &&
\* on_board(pos)), left to right and stopping at the first false.  The board
\* is indexed before on_board is asked, so a position off the board is an
\* index out of range: "panic".
RECURSIVE valid_dead_stones(_, _, _)
valid_dead_stones(board, dead_stones, i) ==
    IF i > Len(dead_stones) THEN "true"
    ELSE IF ~on_board(dead_stones[i]) THEN "panic"
    ELSE IF at(board, dead_stones[i]) # Empty
         THEN valid_dead_stones(board, dead_stones, i + 1)
         ELSE "false"

\* Action::test panics (an index out of range in Board19x19::at).  For Play,
\* valid_move is computed whatever valid_position is, and would_be_suicide
\* reads self.at(position) first.
TestPanics(action, state) ==
    CASE action.tag = "Play" -> ~on_board(action.at)
      [] action.tag = "RequestEnd" ->
            valid_dead_stones(state.board, action.dead_stones, 1) = "panic"
      [] OTHER -> FALSE

\* A test of Handicap that does not look at the ply
any_ply(state) == TRUE

\* Action::test, Handicap: state.ply == 0
first_ply(state) == state.ply = 0

\* Action::test (where it does not panic)
Test(action, state) ==
    CASE action.tag = "Handicap" -> first_ply(state)
      [] action.tag = "Pass" ->
            LET normal_pass == state.phase = Running
                finishing_pass == state.phase = BlackPassed
                my_turn == action.player = current_player(state)
            IN (normal_pass \/ finishing_pass) /\ my_turn
      [] action.tag = "Play" ->
            LET valid_position == /\ on_board(action.at)
                                  /\ at(state.board, action.at) = Empty
                valid_move ==
                    /\ ~would_be_suicide(state.board, action.at, action.player)
                    /\ ~would_be_ko(state, action.at, action.player)
                valid_phase == \/ state.phase = Running
                               \/ state.phase = BlackPassed
                my_turn == action.player = current_player(state)
            IN valid_position /\ valid_move /\ valid_phase /\ my_turn
      [] action.tag = "RequestEnd" ->
            LET valid_phase == state.phase = Ending
            IN /\ valid_phase
               /\ valid_dead_stones(state.board, action.dead_stones, 1) = "true"
      [] action.tag = "RejectEnd" ->
            /\ state.phase[1] = "EndRequested"
            /\ state.phase[2] # action.player
      [] action.tag = "AcceptEnd" ->
            /\ state.phase[1] = "EndRequested"
            /\ state.phase[2] # action.player

\* A pass of White that ends the game whatever Black did before
pass_phase_eager(player, phase) ==
    IF player = PlayerBlack THEN BlackPassed ELSE Ending

\* Action::execute, Pass: the new phase
pass_phase(player, phase) ==
    IF player = PlayerBlack THEN BlackPassed
    ELSE IF player = PlayerWhite /\ phase = BlackPassed THEN Ending
    ELSE phase

\* A Play that leaves the phase as it finds it
play_phase_kept(phase) == phase

\* Action::execute, Play: state.phase = GamePhase::Running
play_phase(phase) == Running

\* A RejectEnd that counts as a ply
reject_end_consumes_ply(state) ==
    [state EXCEPT !.phase = Ending, !.dead_stones = None, !.ply = @ + 1]

\* A RejectEnd that keeps the proposal
reject_end_keeps_proposal(state) == [state EXCEPT !.phase = Ending]

\* Action::execute, RejectEnd
reject_end(state) == [state EXCEPT !.phase = Ending, !.dead_stones = None]

\* A Play that looks for the captured stones after it has set its stone
play_board_captures_after(board, player, position) ==
    LET placed == set(board, position, stone(player))
    IN set_all_empty(placed, would_be_captured(placed, player, position))

\* A board for the scoring from which the stones of the proposal are removed
scored_board_without_dead(state) ==
    IF state.dead_stones = None THEN state.board
    ELSE set_all_empty(state.board, Range(state.dead_stones[2]))

\* Action::execute, AcceptEnd: the board that is scored, state.board
scored_board(state) == state.board

\* Action::execute, Play: set the stone, then clear the captured stones
play_board(board, player, position) ==
    LET captured_stones == would_be_captured(board, player, position)
    IN set_all_empty(set(board, position, stone(player)), captured_stones)

\* Action::execute
Execute(action, state) ==
    CASE action.tag = "Handicap" ->
            register_ko_state(
                [state EXCEPT !.board = set_handicap(@, action.stones),
                              !.ply = @ + 1])
      [] action.tag = "Pass" ->
            register_ko_state(
                [state EXCEPT !.phase = pass_phase(action.player, @),
                              !.ply = @ + 1])
      [] action.tag = "Play" ->
            register_ko_state(
                [state EXCEPT
                    !.board = play_board(@, action.player, action.at),
                    !.ply = @ + 1,
                    !.phase = play_phase(@)])
      [] action.tag = "RequestEnd" ->
            [state EXCEPT !.phase = EndRequested(action.player),
                          !.dead_stones = Some(action.dead_stones)]
      [] action.tag = "RejectEnd" -> reject_end(state)
      [] action.tag = "AcceptEnd" ->
            LET score == area_scoring(scored_board(state))
            IN [state EXCEPT !.phase = Ended(score[1], score[2])]

\* ------------------------------------------------------------------------
\* Engine: the game tree
\* ------------------------------------------------------------------------

\* Path::Empty and Path::HistoryItemId(usize); item id i is data[i + 1]
PathEmpty == <<"Empty">>
HistoryItemId(i) == <<"HistoryItemId", i>>

\* HistoryItem
HistoryItem(parent, action) == [parent |-> parent, action |-> action]

\* Game::new
GameNew == << >>

\* A walk that ignores the parent links: every item stored before curr is
\* taken to be an ancestor
RECURSIVE walk_all(_, _, _)
walk_all(items, curr, path) ==
    IF curr > 0
    THEN walk_all(items, curr - 1, Append(path, curr))
    ELSE Append(path, curr)

\* A walk that starts at the newest item of the store, whatever the Path
RECURSIVE walk_newest(_, _, _)
walk_newest(items, curr, path) ==
    IF path = << >> /\ curr < Len(items) - 1
    THEN walk_newest(items, Len(items) - 1, path)
    ELSE IF items[curr + 1].parent[1] = "HistoryItemId"
         THEN walk_newest(items, items[curr + 1].parent[2], Append(path, curr))
         ELSE Append(path, curr)

\* Game::get_state, the walk: while let HistoryItemId(next) = data[curr].parent
\* { path.push(curr); curr = next; } path.push(curr)
RECURSIVE walk(_, _, _)
walk(items, curr, path) ==
    IF items[curr + 1].parent[1] = "HistoryItemId"
    THEN walk(items, items[curr + 1].parent[2], Append(path, curr))
    ELSE Append(path, curr)

\* A replay in the order of the walk, leaf first
RECURSIVE replay_leaf_first(_, _, _, _)
replay_leaf_first(items, path, k, state) ==
    IF k = 0 THEN state
    ELSE replay_leaf_first(items, path, k - 1,
            Execute(items[path[Len(path) - k + 1] + 1].action, state))

\* Game::get_state, the replay: for idx in path.iter().rev() { execute }
RECURSIVE replay(_, _, _, _)
replay(items, path, k, state) ==
    IF k = 0 THEN state
    ELSE replay(items, path, k - 1, Execute(items[path[k] + 1].action, state))

\* A get_state that takes the root sentinel for the newest item
get_state_latest(items, path_at) ==
    IF path_at[1] = "HistoryItemId" \/ items # << >>
    THEN LET from == IF path_at[1] = "HistoryItemId"
                     THEN path_at[2] ELSE Len(items) - 1
             path == walk(items, from, << >>)
         IN replay(items, path, Len(path), GameStateNew)
    ELSE GameStateNew

\* A get_state whose superko history is shared by the whole tree: the
\* KoStates of every stored item are known at every Path
get_state_shared_history(items, path_at) ==
    LET state_at(p) ==
            IF p[1] = "HistoryItemId"
            THEN LET path == walk(items, p[2], << >>)
                 IN replay(items, path, Len(path), GameStateNew)
            ELSE GameStateNew
        state == state_at(path_at)
    IN [state EXCEPT !.ko_states =
            @ \cup UNION {state_at(HistoryItemId(i - 1)).ko_states :
                             i \in 1..Len(items)}]

\* Game::get_state
get_state(items, path_at) ==
    IF path_at[1] = "HistoryItemId"
    THEN LET path == walk(items, path_at[2], << >>)
         IN replay(items, path, Len(path), GameStateNew)
    ELSE GameStateNew

\* self.data.push(HistoryItem {..})
push(items, item) == Append(items, item)

\* An insert that appends the item before it looks at the test
insert_unchecked(items, parent, action) ==
    LET state == get_state(items, parent)
        pushed == push(items, HistoryItem(parent, action))
    IN IF Test(action, state)
       THEN [data |-> pushed, path |-> HistoryItemId(Len(pushed) - 1)]
       ELSE [data |-> pushed, path |-> PathEmpty]

\* An insert that answers a rejected action with the Path of the parent
insert_returns_parent(items, parent, action) ==
    LET state == get_state(items, parent)
    IN IF Test(action, state)
       THEN LET pushed == push(items, HistoryItem(parent, action))
            IN [data |-> pushed, path |-> HistoryItemId(Len(pushed) - 1)]
       ELSE [data |-> items, path |-> parent]

\* Game::insert: the tree after the call and the Path it returns
insert(items, parent, action) ==
    LET state == get_state(items, parent)
    IN IF Test(action, state)
       THEN LET pushed == push(items, HistoryItem(parent, action))
            IN [data |-> pushed, path |-> HistoryItemId(Len(pushed) - 1)]
       ELSE [data |-> items, path |-> PathEmpty]

\* ------------------------------------------------------------------------
\* Bounds and inputs
\* ------------------------------------------------------------------------

\* The tree holds at most MaxItems history items
MaxItems == 3

\* A game is played for at most MaxPly plies
MaxPly == 5

\* A ko fight is played for at most MaxKoPly plies
MaxKoPly == 8

\* The grid is built on the first NumGridPoints points of the corner
NumGridPoints == 7

\* set_handicap is called with 0..MaxHandicap stones
MaxHandicap == 11

\* The boards that are scored are built on the first NumScorePoints points of
\* the corner
NumScorePoints == 5

CornerPoints ==
    << <<1, 0>>, <<0, 1>>, <<2, 0>>, <<1, 1>>, <<0, 0>>, <<2, 1>>,
       <<1, 2>>, <<0, 2>>, <<2, 2>> >>

GridPoints == {CornerPoints[i] : i \in 1..NumGridPoints}

ScorePoints == {CornerPoints[i] : i \in 1..NumScorePoints}

\* The points set and cleared by hand on a board that receives handicap
\* stones: a corner star point, the middle and a point off the star points
HandicapGridPoints == {<<4, 4>>, <<10, 10>>, <<1, 0>>}

\* The points a game is played on: the corner
GamePoints == {<<1, 0>>, <<0, 1>>, <<2, 0>>, <<1, 1>>, <<0, 0>>}

\* The points of a ko fight in the corner: Black surrounds (1,0) from (2,0)
\* and (1,1), White surrounds (0,0) from (1,0) and (0,1)
KoBlackPoints == {<<2, 0>>, <<1, 1>>, <<0, 0>>}
KoWhitePoints == {<<1, 0>>, <<0, 1>>}

\* The point the callers of the tree play on
TreePoints == {<<1, 0>>}

\* A position off the board (x = 19)
OffBoard == <<BoardSize, 0>>

ActionsOn(handicaps, points, dead_lists) ==
    {Handicap(n) : n \in handicaps}
    \cup {Pass(p) : p \in Players}
    \cup {Play(p, pos) : p \in Players, pos \in points}
    \cup {RequestEnd(p, l) : p \in Players, l \in dead_lists}
    \cup {RejectEnd(p) : p \in Players}
    \cup {AcceptEnd(p) : p \in Players}

TreeActions ==
    ActionsOn({3}, TreePoints \cup {OffBoard}, {<< >>, <<OffBoard>>})

GameActions ==
    ActionsOn({0, 3}, GamePoints, {<< >>, << <<1, 0>> >>})

\* The actions of the scenario of the repository's tests play and pass, and a
\* play next to its point
ScenarioActions ==
    {Pass(p) : p \in Players}
    \cup {Play(p, pos) : p \in Players, pos \in {<<3, 3>>, <<3, 4>>}}

KoActions ==
    {Pass(p) : p \in Players}
    \cup {Play(PlayerBlack, pos) : pos \in KoBlackPoints}
    \cup {Play(PlayerWhite, pos) : pos \in KoWhitePoints}

\* ------------------------------------------------------------------------
\* State
\* ------------------------------------------------------------------------

VARIABLES
    data,      \* Game.data: the flat store of history items
    cursor,    \* the Path the last call of insert returned to the caller
    snap,      \* snap[i + 1]: get_state of item i when insert returned it
    crashed,   \* a call panicked (index out of range)
    game,      \* the GameState at the tip of one path of accepted actions
    trail,     \* the board, the next player and the kind of action after
               \* each ply of that path
    grid       \* a board built with Board::new and Board::set

vars == <<data, cursor, snap, crashed, game, trail, grid>>

Init ==
    /\ data = GameNew
    /\ cursor = PathEmpty
    /\ snap = << >>
    /\ crashed = FALSE
    /\ game = GameStateNew
    /\ trail = << >>
    /\ grid = BoardNew

\* ------------------------------------------------------------------------
\* The tree: a caller inserts actions after the root or after any Path that
\* insert returned
\* ------------------------------------------------------------------------

KnownPaths(items) == {PathEmpty} \cup {HistoryItemId(i - 1) : i \in 1..Len(items)}

\* insert accepts the action: it is appended, the caller gets its Path
InsertAccepted(parent, action) ==
    /\ ~crashed
    /\ Len(data) < MaxItems
    /\ ~TestPanics(action, get_state(data, parent))
    /\ insert(data, parent, action).path # PathEmpty
    /\ data' = insert(data, parent, action).data
    /\ cursor' = insert(data, parent, action).path
    /\ snap' = Append(snap, get_state(data', cursor'))
    /\ UNCHANGED <<crashed, game, trail, grid>>

\* insert rejects the action: the caller gets Path::Empty
InsertRejected(parent, action) ==
    /\ ~crashed
    /\ ~TestPanics(action, get_state(data, parent))
    /\ insert(data, parent, action).path = PathEmpty
    /\ data' = insert(data, parent, action).data
    /\ cursor' = insert(data, parent, action).path
    /\ UNCHANGED <<snap, crashed, game, trail, grid>>

\* Action::test panics inside insert: the call never returns
InsertPanics(parent, action) ==
    /\ ~crashed
    /\ TestPanics(action, get_state(data, parent))
    /\ crashed' = TRUE
    /\ UNCHANGED <<data, cursor, snap, game, trail, grid>>

Next ==
    \/ \E parent \in KnownPaths(data), action \in TreeActions :
            InsertAccepted(parent, action)
    \/ \E parent \in KnownPaths(data), action \in TreeActions :
            InsertRejected(parent, action)
    \/ \E parent \in KnownPaths(data), action \in TreeActions :
            InsertPanics(parent, action)

Spec == Init /\ [][Next]_vars

\* The tree of a caller that plays on (3,3) and passes
NextScenario ==
    \/ \E parent \in KnownPaths(data), action \in ScenarioActions :
            InsertAccepted(parent, action)
    \/ \E parent \in KnownPaths(data), action \in ScenarioActions :
            InsertRejected(parent, action)

SpecScenario == Init /\ [][NextScenario]_vars

\* ------------------------------------------------------------------------
\* One game: the caller inserts each action after the Path of the last
\* accepted one (cursor = game.insert(&cursor, action)); game is get_state
\* of that Path
\* ------------------------------------------------------------------------

ConsumesPly(action) == action.tag \in {"Handicap", "Pass", "Play"}

\* The player to move after a ply-consuming action
NextToMove(action) ==
    IF action.tag = "Handicap" THEN PlayerWhite ELSE other(action.player)

\* An accepted action that consumes a ply, in a game of at most max plies
Ply(action, max) ==
    /\ ConsumesPly(action)
    /\ game.ply < max
    /\ ~TestPanics(action, game)
    /\ Test(action, game)
    /\ game' = Execute(action, game)
    /\ trail' = Append(trail, [board |-> game'.board,
                               player |-> NextToMove(action),
                               tag |-> action.tag])
    /\ UNCHANGED <<data, cursor, snap, crashed, grid>>

\* An accepted action of the end-of-game negotiation
Negotiate(action) ==
    /\ ~ConsumesPly(action)
    /\ ~TestPanics(action, game)
    /\ Test(action, game)
    /\ game' = Execute(action, game)
    /\ UNCHANGED <<data, cursor, snap, crashed, trail, grid>>

NextGame ==
    \E action \in GameActions : Ply(action, MaxPly) \/ Negotiate(action)

SpecGame == Init /\ [][NextGame]_vars

\* One ko fight: the two players play on the points of the corner ko or pass
NextKo ==
    \E action \in KoActions : Ply(action, MaxKoPly)

SpecKo == Init /\ [][NextKo]_vars

\* ------------------------------------------------------------------------
\* One board: stones are set and cleared with Board::set
\* ------------------------------------------------------------------------

SetStone(position, st) ==
    /\ grid' = set(grid, position, st)
    /\ UNCHANGED <<data, cursor, snap, crashed, game, trail>>

NextGrid ==
    \E position \in GridPoints, st \in {Black, White, Empty} :
        SetStone(position, st)

SpecGrid == Init /\ [][NextGrid]_vars

\* One board that receives handicap stones: board.set_handicap(stones)
SetHandicap(stones) ==
    /\ grid' = set_handicap(grid, stones)
    /\ UNCHANGED <<data, cursor, snap, crashed, game, trail>>

NextHandicap ==
    \/ \E stones \in 0..MaxHandicap : SetHandicap(stones)
    \/ \E position \in HandicapGridPoints, st \in {Black, White, Empty} :
            SetStone(position, st)

SpecHandicap == Init /\ [][NextHandicap]_vars

\* One stone that walks over the board: it is set on the corner (0,0), then
\* it is moved to one of board.neighbors of its position
PlaceWalker ==
    /\ grid = BoardNew
    /\ grid' = set(grid, <<0, 0>>, Black)
    /\ UNCHANGED <<data, cursor, snap, crashed, game, trail>>

MoveWalker(k) ==
    /\ grid # BoardNew
    /\ LET position == CHOOSE p \in grid.black : TRUE
       IN /\ k <= Len(neighbors(position))
          /\ grid' = set(set(grid, position, Empty),
                         neighbors(position)[k], Black)
    /\ UNCHANGED <<data, cursor, snap, crashed, game, trail>>

NextWalk ==
    \/ PlaceWalker
    \/ \E k \in 1..4 : MoveWalker(k)

SpecWalk == Init /\ [][NextWalk]_vars

\* One board to be scored
NextScore ==
    \E position \in ScorePoints, st \in {Black, White, Empty} :
        SetStone(position, st)

SpecScore == Init /\ [][NextScore]_vars

\* ------------------------------------------------------------------------
\* Properties of the tree (specification Spec)
\* ------------------------------------------------------------------------

\* The calls of insert a caller can make on the tree as it is: the parent is
\* the root or a Path an accepted insert returned, and the test does not panic
Calls ==
    {c \in KnownPaths(data) \X TreeActions :
        ~TestPanics(c[2], get_state(data, c[1]))}

\* C1: whatever the tree holds, an insert after the root or after a returned
\* Path, of an action whose test is false on get_state(parent), returns
\* Path::Empty and leaves the store as it was: same length, same items in the
\* same order.
C1_RejectedInsertKeepsTree ==
    \A c \in Calls :
        ~Test(c[2], get_state(data, c[1]))
            => /\ insert(data, c[1], c[2]).path = PathEmpty
               /\ Len(insert(data, c[1], c[2]).data) = Len(data)
               /\ insert(data, c[1], c[2]).data = data

\* An insert was rejected on a tree that holds items: the caller got
\* Path::Empty back and the items are there
C1_Witness ==
    /\ cursor = PathEmpty
    /\ Len(data) >= 2
    /\ \E c \in Calls : /\ c[1] # PathEmpty
                        /\ ~Test(c[2], get_state(data, c[1]))

\* C2: an insert whose action passes the test on get_state(parent) appends
\* exactly the item {parent, action}, returns a Path that is not the root and
\* differs from every Path returned before, and get_state of that Path is
\* execute of the action on get_state(parent).
C2_AcceptedInsertAppends ==
    \A c \in Calls :
        Test(c[2], get_state(data, c[1]))
            => LET r == insert(data, c[1], c[2])
               IN /\ r.data = data \o << HistoryItem(c[1], c[2]) >>
                  /\ r.path # PathEmpty
                  /\ r.path \notin KnownPaths(data)
                  /\ get_state(r.data, r.path)
                        = Execute(c[2], get_state(data, c[1]))

\* An insert was accepted after an item that itself has a parent item, and a
\* further action would be accepted after it
C2_Witness ==
    /\ cursor # PathEmpty
    /\ data[cursor[2] + 1].parent # PathEmpty
    /\ data[data[cursor[2] + 1].parent[2] + 1].parent # PathEmpty
    /\ \E c \in Calls : c[1] = cursor /\ Test(c[2], get_state(data, c[1]))

\* C3: get_state of a Path that an accepted insert returned is, at every
\* later time, the state it was when the Path was returned, whatever inserts
\* were accepted or rejected since, on whatever branch.
C3_ReturnedPathsKeepTheirState ==
    \A i \in 1..Len(snap) : get_state(data, HistoryItemId(i - 1)) = snap[i]

\* Since the first Path was returned, an insert was accepted on another
\* branch, one was accepted after that, and one was rejected
C3_Witness ==
    /\ Len(data) = 3
    /\ data[2].parent = PathEmpty
    /\ data[3].parent = HistoryItemId(1)
    /\ cursor = PathEmpty
    /\ snap[1] # snap[2]

\* The pairs of items inserted after the same parent
Siblings ==
    {p \in (1..Len(data)) \X (1..Len(data)) :
        p[1] # p[2] /\ data[p[1]].parent = data[p[2]].parent}

\* C4: two accepted inserts after the same parent give two distinct Paths,
\* and the state of each child is execute of its own action on the state of
\* the parent: it stays the same whatever action the sibling holds.
C4_SiblingsAreIndependent ==
    \A p \in Siblings :
        LET c0 == HistoryItemId(p[1] - 1)
            c1 == HistoryItemId(p[2] - 1)
            parent_state == get_state(data, data[p[1]].parent)
        IN /\ c0 # c1
           /\ get_state(data, c0) = Execute(data[p[1]].action, parent_state)
           /\ \A action \in TreeActions :
                (~TestPanics(action, parent_state) /\ Test(action, parent_state))
                    => get_state([data EXCEPT ![p[2]].action = action], c0)
                            = get_state(data, c0)

\* Two different actions were inserted after the same item, which is not the
\* root, and they lead to different states
C4_Witness ==
    \E p \in Siblings :
        /\ data[p[1]].parent # PathEmpty
        /\ data[p[1]].action # data[p[2]].action
        /\ get_state(data, HistoryItemId(p[1] - 1))
                # get_state(data, HistoryItemId(p[2] - 1))

\* C5: get_state of the root sentinel is the freshly constructed state (empty
\* board, ply 0, Black to move, phase Running, no dead stones proposed, no ko
\* state), whatever items the tree holds.
C5_RootIsTheInitialState ==
    /\ get_state(data, PathEmpty) = GameStateNew
    /\ get_state(data, PathEmpty) =
            [board |-> [black |-> {}, white |-> {}],
             ply |-> 0,
             phase |-> Running,
             dead_stones |-> None,
             ko_states |-> {}]
    /\ current_player(get_state(data, PathEmpty)) = PlayerBlack
    /\ \A pos \in Range(positions) : at(get_state(data, PathEmpty).board, pos) = Empty

\* The tree holds a chain of items and a second branch
C5_Witness ==
    /\ Len(data) = 3
    /\ data[2].parent = HistoryItemId(0)
    /\ data[3].parent = PathEmpty

\* ------------------------------------------------------------------------
\* Properties of ko (specification SpecKo)
\* ------------------------------------------------------------------------

\* The (board, next player) pair of an entry of the trail
KoPair(entry) == [board |-> entry.board, player |-> entry.player]

\* The pairs that resulted from the plies k with from <= k <= to of the path
PairsOfPlies(from, to) == {KoPair(trail[k]) : k \in from..to}

\* The pair a Play would result in: the board after placing the stone and
\* removing the captured stones, the opponent to move
PlayPair(player, position) ==
    [board |-> play_board(game.board, player, position),
     player |-> other(player)]

\* C6: positional superko.  A Play whose resulting pair equals the pair that
\* resulted from any earlier ply-consuming action of the path is rejected,
\* however many plies back that action is.
C6_RepeatingPlayIsRejected ==
    \A action \in KoActions :
        (/\ action.tag = "Play"
         /\ PlayPair(action.player, action.at) \in PairsOfPlies(1, Len(trail)))
            => ~Test(action, game)

\* A Play of the player to move, on an empty point, not suicide, in a phase
\* that allows plays, is rejected because its pair is the pair of a ply at
\* least three plies back and of none of the later plies
C6_Witness ==
    \E action \in KoActions :
        /\ action.tag = "Play"
        /\ action.player = current_player(game)
        /\ at(game.board, action.at) = Empty
        /\ ~would_be_suicide(game.board, action.at, action.player)
        /\ game.phase \in {Running, BlackPassed}
        /\ PlayPair(action.player, action.at)
                \in PairsOfPlies(1, Len(trail) - 3)
        /\ PlayPair(action.player, action.at)
                \notin PairsOfPlies(Len(trail) - 2, Len(trail))
        /\ ~Test(action, game)

\* C7, as stated: along a path of accepted actions the pairs resulting from
\* the successive ply-consuming actions (Handicap, Pass, Play) are pairwise
\* distinct.
C7_NoPairRepeats ==
    \A i, j \in 1..Len(trail) :
        i < j => KoPair(trail[i]) # KoPair(trail[j])

\* C7, amended: along a path of accepted actions the pair resulting from a
\* Play differs from the pairs of all the plies before it (a Pass leaves the
\* board as it is and may repeat a pair).
C7_NoPlayRepeatsAPair ==
    \A j \in 1..Len(trail) :
        trail[j].tag = "Play"
            => KoPair(trail[j]) \notin PairsOfPlies(1, j - 1)

\* A Play was accepted on a path where passes had repeated a pair and where a
\* stone had been captured
C7_Witness ==
    /\ Len(trail) >= 6
    /\ trail[Len(trail)].tag = "Play"
    /\ \E i, j \in 1..(Len(trail) - 1) :
            i < j /\ KoPair(trail[i]) = KoPair(trail[j])
    /\ \E k \in 2..Len(trail) :
            /\ trail[k].tag = "Play"
            /\ Cardinality(trail[k].board.black \cup trail[k].board.white)
                <= Cardinality(trail[k - 1].board.black
                                \cup trail[k - 1].board.white)

\* ------------------------------------------------------------------------
\* Properties of suicide (specifications SpecGame and SpecGrid)
\* ------------------------------------------------------------------------

\* Some neighbor of the position holds a group of the colour whose only
\* liberty is the position
InAtariAt(board, position, colour) ==
    \E k \in 1..Len(neighbors(position)) :
        /\ at(board, neighbors(position)[k]) = colour
        /\ liberties(group_at(board, neighbors(position)[k])) = {position}

\* C8: a Play by the player to move on an empty point of the board whose
\* neighbors all hold stones of the opponent, none of them in a group whose
\* only liberty is that point, is rejected, also when no stone of the player
\* is adjacent to the point.
C8_SurroundedPointIsRejected ==
    \A position \in GamePoints :
        LET player == current_player(game)
        IN (/\ on_board(position)
            /\ at(game.board, position) = Empty
            /\ \A k \in 1..Len(neighbors(position)) :
                    at(game.board, neighbors(position)[k])
                        = stone(other(player))
            /\ ~InAtariAt(game.board, position, stone(other(player))))
                => ~Test(Play(player, position), game)

\* C9: would_be_suicide is true only if the play captures nothing and the
\* group of the new stone is left without a liberty.
C9_SuicideOnlyWithoutLiberty ==
    \A position \in GridPoints, player \in Players :
        (/\ at(grid, position) = Empty
         /\ would_be_suicide(grid, position, player))
            => /\ would_be_captured(grid, player, position) = {}
               /\ liberties(group_at(set(grid, position, stone(player)),
                                     position)) = {}

\* C10: if a group of the opponent next to the position has the position as
\* its only liberty, would_be_suicide is false, whatever groups of the player
\* are next to the position and in whatever order the neighbors are visited.
C10_CaptureMakesLegal ==
    \A position \in GridPoints, player \in Players :
        (/\ at(grid, position) = Empty
         /\ InAtariAt(grid, position, stone(other(player))))
            => ~would_be_suicide(grid, position, player)

\* A play captures, and a group of the player whose last liberty is the
\* position is visited before the captured group
C10_Witness ==
    \E position \in GridPoints, player \in Players :
        /\ at(grid, position) = Empty
        /\ \E k1, k2 \in 1..Len(neighbors(position)) :
            /\ k1 < k2
            /\ at(grid, neighbors(position)[k1]) = stone(player)
            /\ liberties(group_at(grid, neighbors(position)[k1])) = {position}
            /\ at(grid, neighbors(position)[k2]) = stone(other(player))
            /\ liberties(group_at(grid, neighbors(position)[k2])) = {position}

\* ------------------------------------------------------------------------
\* Properties of captures (specification SpecGrid)
\* ------------------------------------------------------------------------

\* The stones of the colour that are connected to a neighbor of the position
\* through a group whose liberties are exactly the position
StonesInAtariAt(board, position, colour) ==
    UNION {group_at(board, neighbors(position)[k]).positions :
            k \in {j \in 1..Len(neighbors(position)) :
                    /\ at(board, neighbors(position)[j]) = colour
                    /\ liberties(group_at(board, neighbors(position)[j]))
                            = {position}}}

\* C11: for an empty position, would_be_captured is the union of the groups
\* of the other colour next to it whose liberty set is {position}; groups
\* with two or more liberties, groups of the player and empty neighbors add
\* nothing.
C11_CapturedAreTheGroupsInAtari ==
    \A position \in GridPoints, player \in Players :
        at(grid, position) = Empty
            => would_be_captured(grid, player, position)
                = StonesInAtariAt(grid, position, stone(other(player)))

\* A play captures a group of two stones while the position also has next to
\* it a group of the other colour that keeps a liberty, a group of the player
\* and an empty point
C11_Witness ==
    \E position \in GridPoints, player \in Players :
        /\ at(grid, position) = Empty
        /\ Cardinality(would_be_captured(grid, player, position)) = 2
        /\ \E k \in 1..Len(neighbors(position)) :
            /\ at(grid, neighbors(position)[k]) = stone(other(player))
            /\ Cardinality(liberties(group_at(grid, neighbors(position)[k]))) >= 2
        /\ \E k \in 1..Len(neighbors(position)) :
            at(grid, neighbors(position)[k]) = stone(player)
        /\ \E k \in 1..Len(neighbors(position)) :
            at(grid, neighbors(position)[k]) = Empty

\* ------------------------------------------------------------------------
\* Properties of the turn order and of the phases (specification SpecGame)
\* ------------------------------------------------------------------------

\* C12: a Pass or a Play is accepted only from the current player, who is
\* Black iff the ply is even; so the player to move alternates along a path
\* (no player makes two plies in a row), and a Pass of Black right after a
\* pass of Black is rejected.
C12_PlayersAlternate ==
    /\ \A action \in GameActions :
            (action.tag \in {"Pass", "Play"} /\ Test(action, game))
                => /\ action.player = current_player(game)
                   /\ action.player = PlayerBlack <=> game.ply % 2 = 0
    /\ \A k \in 1..(Len(trail) - 1) : trail[k].player # trail[k + 1].player
    /\ (/\ trail # << >>
        /\ trail[Len(trail)].tag = "Pass"
        /\ trail[Len(trail)].player = PlayerWhite)
            => ~Test(Pass(PlayerBlack), game)

\* Black has just passed, after at least three plies with a Play among them:
\* Black may not pass or play again, White may
C12_Witness ==
    /\ Len(trail) >= 4
    /\ trail[Len(trail)].tag = "Pass"
    /\ trail[Len(trail)].player = PlayerWhite
    /\ \E k \in 1..Len(trail) : trail[k].tag = "Play"
    /\ ~Test(Pass(PlayerBlack), game)
    /\ Test(Pass(PlayerWhite), game)
    /\ \E position \in GamePoints :
        /\ Test(Play(PlayerWhite, position), game)
        /\ ~Test(Play(PlayerBlack, position), game)

\* The phases in which both players have passed one after the other
AfterBothPassed(phase) ==
    phase = Ending \/ phase[1] = "EndRequested" \/ phase[1] = "Ended"

\* C13: an accepted Pass of Black sets the phase to BlackPassed; an accepted
\* Pass of White sets it to Ending from BlackPassed and leaves it Running from
\* Running; every accepted Pass adds exactly one to ply.  So the game is in
\* or past Ending exactly when the last two plies are a pass of Black and
\* then a pass of White.
C13_PassTransitions ==
    /\ \A player \in Players :
        Test(Pass(player), game)
            => LET next == Execute(Pass(player), game)
               IN /\ next.ply = game.ply + 1
                  /\ player = PlayerBlack => next.phase = BlackPassed
                  /\ (player = PlayerWhite /\ game.phase = BlackPassed)
                        => next.phase = Ending
                  /\ (player = PlayerWhite /\ game.phase = Running)
                        => next.phase = Running
    /\ AfterBothPassed(game.phase)
        <=> /\ Len(trail) >= 2
            /\ trail[Len(trail)].tag = "Pass"
            /\ trail[Len(trail)].player = PlayerBlack
            /\ trail[Len(trail) - 1].tag = "Pass"
            /\ trail[Len(trail) - 1].player = PlayerWhite

\* White passed while the game was Running and the game went on; then Black
\* passed and White passed, and the game is Ending
C13_Witness ==
    /\ game.phase = Ending
    /\ Len(trail) >= 4
    /\ trail[Len(trail) - 2].tag = "Pass"
    /\ trail[Len(trail) - 3].tag = "Play"

\* C14: every accepted Play sets the phase to Running.  A Play of White from
\* BlackPassed cancels the pending pass of Black: a pass of White that
\* follows a Play, and not a pass of Black, leaves the game Running.
C14_PlayResetsPhase ==
    /\ \A action \in GameActions :
            (action.tag = "Play" /\ Test(action, game))
                => Execute(action, game).phase = Running
    /\ (trail # << >> /\ trail[Len(trail)].tag = "Play")
            => game.phase = Running
    /\ (/\ Len(trail) >= 2
        /\ trail[Len(trail)].tag = "Pass"
        /\ trail[Len(trail)].player = PlayerBlack
        /\ trail[Len(trail) - 1].tag = "Play")
            => game.phase = Running

\* Black passed, White played, Black played, White passed: the game is
\* Running
C14_Witness ==
    /\ Len(trail) >= 4
    /\ trail[Len(trail) - 3].tag = "Pass"
    /\ trail[Len(trail) - 3].player = PlayerWhite
    /\ trail[Len(trail) - 2].tag = "Play"
    /\ trail[Len(trail) - 1].tag = "Play"
    /\ trail[Len(trail)].tag = "Pass"
    /\ trail[Len(trail)].player = PlayerBlack
    /\ game.phase = Running

\* ------------------------------------------------------------------------
\* Properties of the end of the game (specification SpecGame)
\* ------------------------------------------------------------------------

\* insert accepts the action after a path that leads to the state: the test
\* returns, and returns true
Accepted(action, state) == ~TestPanics(action, state) /\ Test(action, state)

\* insert rejects the action after a path that leads to the state: the test
\* returns, and returns false
Rejected(action, state) == ~TestPanics(action, state) /\ ~Test(action, state)

\* Lists of dead stones a player may propose: empty, on stones or on empty
\* points of the corner, or off the board
DeadLists ==
    {<< >>, << <<1, 0>> >>, << <<0, 1>> >>, << <<1, 0>>, <<0, 1>> >>,
     << OffBoard >>, << <<1, 0>>, OffBoard >>}

\* The guard of RequestEnd: the phase is Ending and every position of the
\* list is on the board and holds a stone
RequestEndAllowed(state, dead) ==
    /\ state.phase = Ending
    /\ \A i \in 1..Len(dead) :
            on_board(dead[i]) /\ at(state.board, dead[i]) # Empty

\* C15: RequestEnd(p, dead) is accepted iff the phase is Ending and every
\* position of dead is on the board and holds a stone, and is rejected
\* otherwise (in Running, BlackPassed, EndRequested and Ended, and with an
\* empty intersection in the list); when accepted the phase becomes
\* EndRequested(p) and the list is stored as the proposal.
C15_RequestEndGuardAndEffect ==
    \A player \in Players, dead \in DeadLists :
        /\ RequestEndAllowed(game, dead)
            => /\ Accepted(RequestEnd(player, dead), game)
               /\ Execute(RequestEnd(player, dead), game).phase
                    = EndRequested(player)
               /\ Execute(RequestEnd(player, dead), game).dead_stones
                    = Some(dead)
        /\ ~RequestEndAllowed(game, dead)
            => Rejected(RequestEnd(player, dead), game)

\* The phase is EndRequested(q) for a player q other than the player
RequestedByOther(state, player) ==
    \E q \in Players : q # player /\ state.phase = <<"EndRequested", q>>

\* C16: AcceptEnd(p) is accepted iff the phase is EndRequested(q) with q # p
\* (not the own request, and in no other phase); once it is accepted the
\* phase is Ended(b, w), (b, w) being area_scoring of the board the request
\* was made on (the board after the last ply): b for Black, w for White.
C16_AcceptEndGuardAndEffect ==
    /\ \A player \in Players :
        /\ Accepted(AcceptEnd(player), game) <=> RequestedByOther(game, player)
        /\ ~RequestedByOther(game, player) => Rejected(AcceptEnd(player), game)
    /\ game.phase[1] = "Ended"
        => LET score == area_scoring(trail[Len(trail)].board)
           IN /\ game.board = trail[Len(trail)].board
              /\ game.phase = <<"Ended", score[1], score[2]>>
              /\ (game.board.white = {} /\ game.board.black # {})
                    => game.phase = <<"Ended", BoardSize * BoardSize, 0>>

\* A request was accepted by the other player on a board that holds black
\* stones only: the whole board is Black's
C16_Witness ==
    /\ game.phase[1] = "Ended"
    /\ game.phase[2] > game.phase[3]
    /\ game.dead_stones # None
    /\ game.board.black # {}

\* C17: RejectEnd(p) is accepted iff the phase is EndRequested(q) with
\* q # p; when accepted the phase is Ending again and the proposal is
\* cleared, and a new RequestEnd of either player is accepted after it.
C17_RejectEndGuardAndEffect ==
    \A player \in Players :
        /\ Accepted(RejectEnd(player), game) <=> RequestedByOther(game, player)
        /\ ~RequestedByOther(game, player) => Rejected(RejectEnd(player), game)
        /\ Accepted(RejectEnd(player), game)
            => LET next == Execute(RejectEnd(player), game)
               IN /\ next.phase = Ending
                  /\ next.dead_stones = None
                  /\ next.board = game.board
                  /\ \A q \in Players :
                        /\ Accepted(RequestEnd(q, << >>), next)
                        /\ Execute(RequestEnd(q, << >>), next).phase
                                = EndRequested(q)

\* Black proposed the stone at (1,0) as dead: White may reject, Black may not
C17_Witness ==
    /\ game.phase = EndRequested(PlayerBlack)
    /\ game.dead_stones = Some(<< <<1, 0>> >>)
    /\ Accepted(RejectEnd(PlayerWhite), game)
    /\ Rejected(RejectEnd(PlayerBlack), game)
    /\ Accepted(RequestEnd(PlayerWhite, << <<1, 0>> >>),
                Execute(RejectEnd(PlayerWhite), game))

\* Every kind of action, for both players, on the points of the corner and
\* off the board, with every list of dead stones
AllActions ==
    ActionsOn({0, 3, 10}, GamePoints \cup {OffBoard}, DeadLists)

\* C18: Ended is terminal.  In every reachable state whose phase is Ended the
\* test of every action (Handicap with any n, Pass, Play, RequestEnd,
\* RejectEnd, AcceptEnd, either player, any position) is false.
C18_EndedIsTerminal ==
    game.phase[1] = "Ended"
        => \A action \in AllActions : Rejected(action, game)

\* ------------------------------------------------------------------------
\* Properties of the handicap (specification SpecGame)
\* ------------------------------------------------------------------------

\* C19: Handicap(n) is accepted iff ply = 0 in the state it is tested on, so
\* on a path it can only be the first action; after Handicap(3) on the
\* initial state the three points of the table hold black stones, ply is 1
\* and White is the current player.
C19_HandicapOnlyFirst ==
    /\ \A n \in {0, 3, 10} :
        /\ Accepted(Handicap(n), game) <=> game.ply = 0
        /\ game.ply # 0 => Rejected(Handicap(n), game)
    /\ \A k \in 2..Len(trail) : trail[k].tag # "Handicap"
    /\ game.ply = 0
        => LET next == Execute(Handicap(3), game)
           IN /\ next.board = [black |-> {<<14, 4>>, <<4, 14>>, <<14, 14>>},
                               white |-> {}]
              /\ next.ply = 1
              /\ current_player(next) = PlayerWhite
    /\ (trail # << >> /\ trail[1].tag = "Handicap")
        => /\ trail[1].player = PlayerWhite
           /\ trail[1].board.white = {}
           /\ trail[1].board.black \in {{}, {<<14, 4>>, <<4, 14>>, <<14, 14>>}}

\* The game started with three handicap stones and went on for three more
\* plies, a Play of White among them: a Handicap is not accepted any more
C19_Witness ==
    /\ Len(trail) >= 4
    /\ trail[1].tag = "Handicap"
    /\ trail[1].board.black = {<<14, 4>>, <<4, 14>>, <<14, 14>>}
    /\ game.board.white # {}
    /\ Rejected(Handicap(3), game)

\* ------------------------------------------------------------------------
\* Properties of positions off the board (specification Spec)
\* ------------------------------------------------------------------------

\* C20: a Play on a position that is not on the board is rejected like any
\* other illegal action: the test returns (no access to the board out of
\* range), insert returns Path::Empty and the tree is unchanged.
C20_OffBoardPlayIsRejected ==
    \A parent \in KnownPaths(data), player \in Players :
        /\ ~TestPanics(Play(player, OffBoard), get_state(data, parent))
        /\ insert(data, parent, Play(player, OffBoard)).path = PathEmpty
        /\ insert(data, parent, Play(player, OffBoard)).data = data
\* ------------------------------------------------------------------------
\* C21 (specification Spec): RequestEnd with a position off the board
\* ------------------------------------------------------------------------

\* C21: a RequestEnd whose list of dead stones contains a position that is
\* not on the board is rejected without failing: the test returns (the board
\* is not read at that position), insert returns Path::Empty and the tree is
\* unchanged.
C21_OffBoardDeadStoneIsRejected ==
    \A parent \in KnownPaths(data), player \in Players :
        LET action == RequestEnd(player, <<OffBoard>>)
        IN /\ valid_dead_stones(get_state(data, parent).board,
                                action.dead_stones, 1) # "panic"
           /\ insert(data, parent, action).path = PathEmpty
           /\ insert(data, parent, action).data = data
\* ------------------------------------------------------------------------
\* C22 (specification SpecScore): area scoring against the regions of empty
\* positions
\* ------------------------------------------------------------------------

StonesOf(board, st) == IF st = Black THEN board.black ELSE board.white

\* The empty positions next to a position of the frontier that are not seen yet
EmptyAround(board, frontier, seen) ==
    {p \in UNION {Range(neighbors(q)) : q \in frontier} :
        at(board, p) = Empty /\ p \notin seen}

RECURSIVE Flood(_, _, _)
Flood(board, frontier, seen) ==
    IF frontier = {} THEN seen
    ELSE LET next == EmptyAround(board, frontier, seen)
         IN Flood(board, next, seen \cup next)

\* The empty positions whose connected region of empty positions touches a
\* stone of the colour
RegionsTouching(board, st) ==
    LET first == EmptyAround(board, StonesOf(board, st), {})
    IN Flood(board, first, first)

\* The number of positions that hold a stone of the colour, or are empty with
\* a region that touches the colour or does not touch the other colour
RegionScore(board, st, other_st) ==
    LET mine == RegionsTouching(board, st)
        theirs == RegionsTouching(board, other_st)
    IN Cardinality(StonesOf(board, st))
       + Cardinality({p \in Range(positions) :
                        /\ at(board, p) = Empty
                        /\ (p \in mine \/ p \notin theirs)})

\* C22: area_scoring is the score by regions: a position counts for a colour
\* iff it holds a stone of the colour, or it is empty and its connected empty
\* region touches a stone of the colour, or it is empty and its region touches
\* no stone of the other colour; the eroded clones are the board with the
\* regions that touch the colour filled.
C22_AreaScoringCountsRegions ==
    /\ area_scoring(grid) = <<RegionScore(grid, Black, White),
                              RegionScore(grid, White, Black)>>
    /\ erode(grid, Black) = [black |-> grid.black
                                        \cup RegionsTouching(grid, Black),
                             white |-> grid.white]

\* A point enclosed by black stones on a board where the open region touches
\* both colours: it counts for Black only
C22_Witness ==
    /\ at(grid, <<0, 0>>) = Empty
    /\ <<0, 0>> \in RegionsTouching(grid, Black)
    /\ <<0, 0>> \notin RegionsTouching(grid, White)
    /\ <<2, 0>> \in RegionsTouching(grid, White)
    /\ <<2, 0>> \in RegionsTouching(grid, Black)
    /\ area_scoring(grid)[1] = area_scoring(grid)[2] + 2
\* ------------------------------------------------------------------------
\* C23 (specification SpecGrid): group_at
\* ------------------------------------------------------------------------

\* The positions next to the frontier that hold the stone and are not seen yet
SameAround(board, st, frontier, seen) ==
    {p \in UNION {Range(neighbors(q)) : q \in frontier} :
        at(board, p) = st /\ p \notin seen}

RECURSIVE Chain(_, _, _, _)
Chain(board, st, frontier, seen) ==
    IF frontier = {} THEN seen
    ELSE LET next == SameAround(board, st, frontier, seen)
         IN Chain(board, st, next, seen \cup next)

\* The maximal orthogonally connected set of positions around a stone that
\* hold its colour
ChainAt(board, position) ==
    Chain(board, at(board, position), {position}, {position})

\* C23: group_at of an Empty position is the empty set; of a stone it is the
\* maximal orthogonally connected set of positions of the same colour, and
\* group_at of any member of that set is the same set.
C23_GroupAtIsTheChain ==
    \A position \in GridPoints :
        LET group == group_at(grid, position).positions
        IN IF at(grid, position) = Empty
           THEN group = {}
           ELSE /\ group = ChainAt(grid, position)
                /\ position \in group
                /\ \A q \in group :
                      /\ at(grid, q) = at(grid, position)
                      /\ \A n \in Range(neighbors(q)) :
                            at(grid, n) = at(grid, position) => n \in group
                      /\ group_at(grid, q).positions = group

\* A black group of three stones or more from (0,0), next to a white stone
\* and to an empty point of the grid
C23_Witness ==
    /\ at(grid, <<0, 0>>) = Black
    /\ Cardinality(group_at(grid, <<0, 0>>).positions) >= 3
    /\ \E q \in group_at(grid, <<0, 0>>).positions :
            \E n \in Range(neighbors(q)) : at(grid, n) = White
    /\ \E p \in GridPoints : group_at(grid, p).positions = {}
\* ------------------------------------------------------------------------
\* C24 (specification SpecHandicap): set_handicap
\* ------------------------------------------------------------------------

\* The table of handicap points: corner pairs from two, three and four stones
\* on, the point the code calls the middle, (10,10), for five, seven and
\* nine, the left and right sides from six on, the top and bottom for eight
\* and nine
HandicapTable(n) ==
    (IF 2 <= n /\ n <= 9 THEN {<<14, 4>>, <<4, 14>>} ELSE {})
    \cup (IF 3 <= n /\ n <= 9 THEN {<<14, 14>>} ELSE {})
    \cup (IF 4 <= n /\ n <= 9 THEN {<<4, 4>>} ELSE {})
    \cup (IF n \in {5, 7, 9} THEN {<<10, 10>>} ELSE {})
    \cup (IF 6 <= n /\ n <= 9 THEN {<<4, 10>>, <<14, 10>>} ELSE {})
    \cup (IF n \in {8, 9} THEN {<<10, 4>>, <<10, 14>>} ELSE {})

\* C24: set_handicap(n) sets the points of the table for n to Black and no
\* other point; on an empty board that is exactly n black stones for every n
\* in 2..9, and for every n outside 2..9 the board is unchanged.
C24_HandicapPlacesTheTable ==
    \A n \in 0..MaxHandicap :
        LET board == set_handicap(grid, n)
        IN /\ board.black = grid.black \cup HandicapTable(n)
           /\ board.white = grid.white \ HandicapTable(n)
           /\ (n < 2 \/ n > 9) => board = grid
           /\ (grid = BoardNew /\ 2 <= n /\ n <= 9)
                => /\ Cardinality(board.black) = n
                   /\ board.white = {}
                   /\ \A p \in board.black : on_board(p)

\* The board after set_handicap(6) on an empty board: six stones, the middle
\* is empty
C24_Witness ==
    /\ grid.white = {}
    /\ Cardinality(grid.black) = 6
    /\ grid.black = HandicapTable(6)
    /\ at(grid, <<10, 10>>) = Empty
\* ------------------------------------------------------------------------
\* C25 (specification SpecWalk): neighbors
\* ------------------------------------------------------------------------

Lines == 0..(BoardSize - 1)

Distance(a, b) == IF a < b THEN b - a ELSE a - b

\* The positions of the board at distance one along a line of the board
Adjacent(position) ==
    {q \in Lines \X Lines :
        Distance(q[1], position[1]) + Distance(q[2], position[2]) = 1}

\* The number of the two coordinates that lie on the first or the last line
OnEdges(position) ==
    (IF position[1] \in {0, BoardSize - 1} THEN 1 ELSE 0)
    + (IF position[2] \in {0, BoardSize - 1} THEN 1 ELSE 0)

\* C25: neighbors(pos) is exactly the orthogonally adjacent positions on the
\* board, each once: 2 for a corner, 3 for a point of an edge that is no
\* corner, 4 for a point of the interior; pos is not among them, and pos is a
\* neighbor of each of them.
C25_NeighborsAreTheAdjacentPoints ==
    \A position \in grid.black :
        LET ns == neighbors(position)
        IN /\ Range(ns) = Adjacent(position)
           /\ Len(ns) = Cardinality(Range(ns))
           /\ Len(ns) = 4 - OnEdges(position)
           /\ \A q \in Range(ns) : on_board(q)
           /\ position \notin Range(ns)
           /\ \A q \in Range(ns) : position \in Range(neighbors(q))

\* The walk has reached the far corner (18,18): two neighbors
C25_Witness ==
    /\ grid.black = {<<LastLine, LastLine>>}
    /\ Len(neighbors(<<LastLine, LastLine>>)) = 2
\* ------------------------------------------------------------------------
\* C26 (specification SpecScenario): the scenario play, occupied point, two
\* passes
\* ------------------------------------------------------------------------

\* Black's stone on (3,3), inserted at the root of the tree as it is
BlackPlays == insert(data, PathEmpty, Play(PlayerBlack, <<3, 3>>))

\* White's attempt on the same point, after Black's stone
WhiteAttempt ==
    insert(BlackPlays.data, BlackPlays.path, Play(PlayerWhite, <<3, 3>>))

\* The two passes, Black's first, inserted after the path `from`
PassBlack(from) == insert(BlackPlays.data, from, Pass(PlayerBlack))
PassWhite(from) ==
    insert(PassBlack(from).data, PassBlack(from).path, Pass(PlayerWhite))

\* C26 as stated: Play(Black,(3,3)) on a fresh game is accepted (a path that
\* is not the root); Play(White,(3,3)) after it is rejected; then, from the
\* position after Black's stone, Pass(Black) and after it Pass(White) are
\* accepted, and the state they lead to has phase Ending and ply 2.
C26_ScenarioWithPassesAfterTheStone ==
    /\ BlackPlays.path # PathEmpty
    /\ WhiteAttempt.path = PathEmpty
    /\ PassBlack(BlackPlays.path).path # PathEmpty
    /\ PassWhite(BlackPlays.path).path # PathEmpty
    /\ LET state == get_state(PassWhite(BlackPlays.path).data,
                              PassWhite(BlackPlays.path).path)
       IN state.phase = Ending /\ state.ply = 2

\* C26 as amended: Play(Black,(3,3)) on a fresh game is accepted (a path that
\* is not the root); Play(White,(3,3)) after it is rejected and leaves the
\* tree as it is; after Black's stone Pass(Black) is rejected (White is to
\* move); on the fresh game (the root) Pass(Black) and after it Pass(White)
\* are accepted, and the state they lead to has phase Ending and ply 2.
C26_ScenarioWithPassesAtTheRoot ==
    /\ BlackPlays.path # PathEmpty
    /\ at(get_state(BlackPlays.data, BlackPlays.path).board, <<3, 3>>) = Black
    /\ WhiteAttempt.path = PathEmpty
    /\ WhiteAttempt.data = BlackPlays.data
    /\ PassBlack(BlackPlays.path).path = PathEmpty
    /\ PassBlack(PathEmpty).path # PathEmpty
    /\ PassWhite(PathEmpty).path # PathEmpty
    /\ LET state == get_state(PassWhite(PathEmpty).data,
                              PassWhite(PathEmpty).path)
       IN state.phase = Ending /\ state.ply = 2

\* The tree holds the scenario: Black's stone on (3,3) at the root, and
\* beside it Black's pass at the root followed by White's pass, which leads
\* to phase Ending
C26_Witness ==
    \E i, j, k \in 1..Len(data) :
        /\ data[i] = HistoryItem(PathEmpty, Play(PlayerBlack, <<3, 3>>))
        /\ data[j] = HistoryItem(PathEmpty, Pass(PlayerBlack))
        /\ data[k] = HistoryItem(HistoryItemId(j - 1), Pass(PlayerWhite))
        /\ get_state(data, HistoryItemId(k - 1)).phase = Ending
        /\ get_state(data, HistoryItemId(k - 1)).ply = 2
\* ------------------------------------------------------------------------
\* C27 (specification SpecGame): playing on from phase Ending
\* ------------------------------------------------------------------------

\* A point the player may play on by the rules of the board: on the board,
\* empty, no suicide and no repetition
LegalPoint(state, player, position) ==
    /\ on_board(position)
    /\ at(state.board, position) = Empty
    /\ ~would_be_suicide(state.board, position, player)
    /\ ~would_be_ko(state, position, player)

\* C27: in phase Ending (White passed after Black passed) the players may
\* continue playing: a Play of the player to move on a legal point is accepted
\* and returns the game to phase Running.
C27_PlayContinuesFromEnding ==
    game.phase = Ending
    => \A position \in GamePoints :
          LET action == Play(current_player(game), position)
          IN LegalPoint(game, current_player(game), position)
             => /\ Accepted(action, game)
                /\ Execute(action, game).phase = Running
\* ------------------------------------------------------------------------
\* C28 (specification SpecGame): the effect of an accepted Play
\* ------------------------------------------------------------------------

\* C28: after an accepted Play(p, pos), pos holds p's stone, exactly the
\* positions of would_be_captured(p, pos) on the board before the move are
\* Empty in place of the stones they held, every other position holds what
\* it held, ply is one more and the proposal of dead stones is as it was.
C28_PlayEffect ==
    \A player \in Players, position \in GamePoints :
        LET action == Play(player, position)
            captured == would_be_captured(game.board, player, position)
            next == Execute(action, game)
        IN Accepted(action, game)
           => /\ at(next.board, position) = stone(player)
              /\ position \notin captured
              /\ \A q \in captured :
                    at(game.board, q) # Empty /\ at(next.board, q) = Empty
              /\ next.board.black \ (captured \cup {position})
                    = game.board.black \ (captured \cup {position})
              /\ next.board.white \ (captured \cup {position})
                    = game.board.white \ (captured \cup {position})
              /\ next.ply = game.ply + 1
              /\ next.dead_stones = game.dead_stones

\* The last ply was a Play that captured: the board holds fewer stones than
\* before it
C28_Witness ==
    /\ Len(trail) >= 2
    /\ trail[Len(trail)].tag = "Play"
    /\ game.board = trail[Len(trail)].board
    /\ Cardinality(game.board.black \cup game.board.white)
        < Cardinality(trail[Len(trail) - 1].board.black
                      \cup trail[Len(trail) - 1].board.white) + 1
\* ------------------------------------------------------------------------
\* C29 (specification SpecGame): no group without a liberty
\* ------------------------------------------------------------------------

\* C29: in every state reached by accepted actions, every group of stones on
\* the board has at least one liberty.
C29_EveryGroupHasALiberty ==
    \A position \in game.board.black \cup game.board.white :
        liberties(group_at(game.board, position)) # {}
\* ------------------------------------------------------------------------
\* C30 (specification SpecGame): the ko test and the executed move agree
\* ------------------------------------------------------------------------

\* C30: for every Play accepted in a state, KoState::from_move of the state's
\* board, the position and the player is the KoState that register_ko_state
\* inserts after the Play is executed: the board after the captures and the
\* player to move next; it is the one KoState the Play adds.
C30_KoTestAgreesWithExecute ==
    \A player \in Players, position \in GamePoints :
        LET action == Play(player, position)
            next == Execute(action, game)
            tested == from_move(game.board, position, player)
        IN Accepted(action, game)
           => /\ tested.board = next.board
              /\ tested.player = current_player(next)
              /\ tested \notin game.ko_states
              /\ next.ko_states = game.ko_states \cup {tested}

\* The last ply was a Play of White that captured a black stone, and the
\* KoState of the board it left with Black to move is registered
C30_Witness ==
    /\ Len(trail) >= 2
    /\ trail[Len(trail)].tag = "Play"
    /\ current_player(game) = PlayerBlack
    /\ Cardinality(game.board.black)
        < Cardinality(trail[Len(trail) - 1].board.black)
    /\ [board |-> game.board, player |-> PlayerBlack] \in game.ko_states
\* ------------------------------------------------------------------------
\* C31 (specification SpecGame): what the negotiation and a Pass leave alone
\* ------------------------------------------------------------------------

\* The step is an accepted RequestEnd, RejectEnd or AcceptEnd: these are the
\* actions accepted once both players have passed
NegotiationStep ==
    /\ AfterBothPassed(game.phase)
    /\ game' # game

\* The step is an accepted Pass
PassStep ==
    /\ Len(trail') = Len(trail) + 1
    /\ trail'[Len(trail')].tag = "Pass"

\* C31: the negotiation of the end consumes no ply: an accepted RequestEnd,
\* RejectEnd or AcceptEnd leaves the board, the ply (and with it the player to
\* move) and the registered KoStates as they are; an accepted Pass leaves the
\* board and the proposal of dead stones as they are.
C31_NegotiationAndPassFrame ==
    [][/\ NegotiationStep
            => /\ game'.board = game.board
               /\ game'.ply = game.ply
               /\ current_player(game') = current_player(game)
               /\ game'.ko_states = game.ko_states
               /\ trail' = trail
       /\ PassStep
            => /\ game'.board = game.board
               /\ game'.dead_stones = game.dead_stones
               /\ game'.ply = game.ply + 1]_vars

\* A request of White after a game with stones and two passes, rejected
\* requests before it or not: four plies, three KoStates (the second pass
\* repeats the pair before the first), the proposal stored
C31_Witness ==
    /\ game.phase = EndRequested(PlayerWhite)
    /\ game.dead_stones = Some(<< <<1, 0>> >>)
    /\ game.ply = 4
    /\ Len(trail) = 4
    /\ trail[4].tag = "Pass"
    /\ game.board = trail[4].board
    /\ Cardinality(game.ko_states) = 3
\* ------------------------------------------------------------------------
\* C32 (specification SpecGame): phase and parity of ply
\* ------------------------------------------------------------------------

\* C32: in every reachable state, phase BlackPassed implies that ply is odd
\* (White is to move); phase Ending, EndRequested or Ended implies that ply is
\* even and at least 2; ply 0 implies phase Running.
C32_PhaseAndParity ==
    /\ game.phase = BlackPassed
        => (game.ply % 2 = 1 /\ current_player(game) = PlayerWhite)
    /\ AfterBothPassed(game.phase)
        => (game.ply % 2 = 0 /\ game.ply >= 2
            /\ current_player(game) = PlayerBlack)
    /\ game.ply = 0 => game.phase = Running

\* A request to end a game that began with a handicap and had a play before
\* the two passes: ply 4
C32_Witness ==
    /\ game.phase[1] = "EndRequested"
    /\ game.ply = 4
    /\ trail[1].tag = "Handicap"
    /\ trail[2].tag = "Play"
\* ------------------------------------------------------------------------
\* C33 (specification Spec): the superko history belongs to the path
\* ------------------------------------------------------------------------

\* The actions on the chain from the root to the path, root first
RECURSIVE Ancestry(_, _)
Ancestry(items, path_at) ==
    IF path_at[1] = "HistoryItemId"
    THEN Append(Ancestry(items, items[path_at[2] + 1].parent),
                items[path_at[2] + 1].action)
    ELSE << >>

\* A tree of its own that holds nothing but the chain: each action inserted
\* after the Path of the one before
RECURSIVE PlayedAlone(_, _)
PlayedAlone(actions, k) ==
    IF k = 0 THEN [data |-> GameNew, path |-> PathEmpty]
    ELSE LET before == PlayedAlone(actions, k - 1)
         IN insert(before.data, before.path, actions[k])

\* The state after the first k actions of the chain, in the tree of its own
AloneState(actions, k) ==
    get_state(PlayedAlone(actions, k).data, PlayedAlone(actions, k).path)

\* The positions produced on the chain: the board and the player to move after
\* each of its actions
ChainKoStates(actions) ==
    {[board |-> AloneState(actions, k).board,
      player |-> current_player(AloneState(actions, k))] :
        k \in 1..Len(actions)}

\* C33: whether a Play inserted after a parent is a repetition depends only on
\* the positions produced on the chain from the root to the parent: the
\* KoStates at the parent are those of the chain, whatever else the tree
\* holds, and the Play is accepted in the tree exactly when it is accepted
\* after the same chain in a tree of its own.
C33_KoHistoryIsPerPath ==
    \A parent \in KnownPaths(data), player \in Players,
       position \in TreePoints :
        LET state == get_state(data, parent)
            chain == Ancestry(data, parent)
            alone == PlayedAlone(chain, Len(chain))
            action == Play(player, position)
        IN /\ alone.path # PathEmpty \/ chain = << >>
           /\ state.ko_states = ChainKoStates(chain)
           /\ would_be_ko(state, position, player)
                <=> from_move(state.board, position, player)
                        \in ChainKoStates(chain)
           /\ (insert(data, parent, action).path = PathEmpty)
                <=> (insert(alone.data, alone.path, action).path = PathEmpty)

\* Two branches at the root that begin with the same Play: the position of the
\* first is registered in its branch, and the second was accepted
C33_Witness ==
    \E i, j \in 1..Len(data) :
        /\ i < j
        /\ data[i] = HistoryItem(PathEmpty, Play(PlayerBlack, <<1, 0>>))
        /\ data[j] = data[i]
        /\ from_move(BoardNew, <<1, 0>>, PlayerBlack)
            \in get_state(data, HistoryItemId(i - 1)).ko_states
        /\ get_state(data, PathEmpty).ko_states = {}
\* ------------------------------------------------------------------------
\* C34 (specification Spec): the root sentinel is the rejection signal
\* ------------------------------------------------------------------------

\* C34: the Path a rejected insert returns is the root Path: get_state of it
\* is the initial state, and an insert that uses it as parent is tested
\* against the initial state and, if accepted, stores an item whose parent is
\* the root (a new branch at the root, not a continuation of the game).
C34_RejectionReturnsTheRoot ==
    LET rejections ==
            {insert(data, parent, action) :
                <<parent, action>> \in
                    {c \in KnownPaths(data) \X TreeActions :
                        Rejected(c[2], get_state(data, c[1]))}}
    IN \A rejected \in rejections :
          /\ rejected.path = PathEmpty
          /\ rejected.data = data
          /\ get_state(rejected.data, rejected.path) = GameStateNew
          /\ \A following \in TreeActions :
                LET next == insert(rejected.data, rejected.path, following)
                IN ~TestPanics(following, GameStateNew)
                   => IF Test(following, GameStateNew)
                      THEN /\ next.path = HistoryItemId(Len(data))
                           /\ next.data[Len(data) + 1].parent = PathEmpty
                           /\ get_state(next.data, next.path)
                                = Execute(following, GameStateNew)
                      ELSE next.path = PathEmpty

\* The caller went on from a rejected insert: the tree holds Black's pass at
\* the root twice (the second pass of Black was rejected after the first and
\* accepted after the Path that rejection returned), and the last insert was
\* rejected too
C34_Witness ==
    /\ cursor = PathEmpty
    /\ Len(data) >= 2
    /\ data[1] = HistoryItem(PathEmpty, Pass(PlayerBlack))
    /\ data[2] = HistoryItem(PathEmpty, Pass(PlayerBlack))
    /\ Rejected(Pass(PlayerBlack), get_state(data, HistoryItemId(0)))
\* ------------------------------------------------------------------------
\* C35 (specification SpecGame): the score and the proposal of dead stones
\* ------------------------------------------------------------------------

\* C35: the score AcceptEnd records does not depend on the proposal of dead
\* stones: whatever list the accepted RequestEnd stored, empty or not, the
\* phase is Ended(b, w) with (b, w) the area_scoring of the board as it is;
\* the stones named dead are still on the board and are counted.
C35_ScoreIgnoresDeadStones ==
    game.phase[1] = "Ended"
    => LET score == area_scoring(game.board)
       IN /\ game.dead_stones # None
          /\ \A i \in 1..Len(game.dead_stones[2]) :
                at(game.board, game.dead_stones[2][i]) # Empty
          /\ game.phase = <<"Ended", score[1], score[2]>>
          /\ score[1] >= Cardinality(game.board.black)
          /\ score[2] >= Cardinality(game.board.white)

\* The game ended with the only stone of the board, a black one, named dead:
\* Black has all 361 points and White none
C35_Witness ==
    /\ game.phase = <<"Ended", BoardSize * BoardSize, 0>>
    /\ game.dead_stones = Some(<< <<1, 0>> >>)
    /\ game.board = [black |-> {<<1, 0>>}, white |-> {}]
\* ------------------------------------------------------------------------
\* C36 (specification SpecScore): bounds of the two scores
\* ------------------------------------------------------------------------

\* The empty positions whose region touches both colours or no stone at all
SharedPositions(board) ==
    LET black == RegionsTouching(board, Black)
        white == RegionsTouching(board, White)
    IN {p \in Range(positions) :
            /\ at(board, p) = Empty
            /\ (p \in black) <=> (p \in white)}

\* C36: area_scoring counts every position for at least one side and a stone
\* for its owner only: the two scores add up to the number of positions plus
\* the number of empty positions whose region touches both colours or no
\* stone (these count for both sides), so to at least the number of
\* positions; neither score exceeds the number of positions less the stones of
\* the other side; a board without stones scores (N, N).
C36_ScoresCoverTheBoard ==
    LET score == area_scoring(grid)
        N == Len(positions)
    IN /\ score[1] + score[2] = N + Cardinality(SharedPositions(grid))
       /\ score[1] + score[2] >= N
       /\ score[1] >= Cardinality(grid.black)
       /\ score[2] >= Cardinality(grid.white)
       /\ score[1] <= N - Cardinality(grid.white)
       /\ score[2] <= N - Cardinality(grid.black)
       /\ (grid = BoardNew) => score = <<N, N>>

\* Stones of both colours around the open region, which counts for both
\* sides: each score is below N and the sum above it
C36_Witness ==
    /\ grid.black # {}
    /\ grid.white # {}
    /\ area_scoring(grid)[1] < Len(positions)
    /\ area_scoring(grid)[2] < Len(positions)
    /\ area_scoring(grid)[1] + area_scoring(grid)[2] > Len(positions)
    /\ <<5, 5>> \in SharedPositions(grid)
\* ------------------------------------------------------------------------
\* C37 (specification SpecGame): a Handicap that places no stone
\* ------------------------------------------------------------------------

\* Numbers of handicap stones outside 2..9
NoStoneHandicaps == {0, 1, 10}

\* C37: Handicap(n) with n outside 2..9 is accepted at ply 0: it places no
\* stone, ply becomes 1 so that White moves first on an empty board, the
\* phase stays Running and the KoState (empty board, White) is registered.
C37_EmptyHandicapIsAccepted ==
    /\ game.ply = 0
        => \A n \in NoStoneHandicaps :
              LET next == Execute(Handicap(n), game)
              IN /\ Accepted(Handicap(n), game)
                 /\ next.board = BoardNew
                 /\ next.ply = 1
                 /\ current_player(next) = PlayerWhite
                 /\ next.phase = Running
                 /\ next.dead_stones = None
                 /\ next.ko_states
                        = {[board |-> BoardNew, player |-> PlayerWhite]}
                 /\ Accepted(Play(PlayerWhite, <<1, 0>>), next)
                 /\ Rejected(Play(PlayerBlack, <<1, 0>>), next)
    /\ (Len(trail) >= 1 /\ trail[1].tag = "Handicap"
            /\ trail[1].board = BoardNew)
        => /\ trail[1].player = PlayerWhite
           /\ [board |-> BoardNew, player |-> PlayerWhite] \in game.ko_states
           /\ game.ply = Len(trail)

\* Handicap(0) was the first action and White played the first stone of the
\* game
C37_Witness ==
    /\ Len(trail) >= 2
    /\ trail[1].tag = "Handicap"
    /\ trail[1].board = BoardNew
    /\ trail[2].tag = "Play"
    /\ trail[2].board.white # {}
    /\ trail[2].board.black = {}
\* ------------------------------------------------------------------------
\* C38 (specification SpecHandicap): the centre and the symmetry of the
\* handicap points
\* ------------------------------------------------------------------------

\* The intersection at the same distance from all four edges: (9,9)
Centre == <<LastLine \div 2, LastLine \div 2>>

\* The reflections of the board: left-right, top-bottom and the diagonal
Reflections(position) ==
    {<<LastLine - position[1], position[2]>>,
     <<position[1], LastLine - position[2]>>,
     <<position[2], position[1]>>}

\* C38: for n in {5, 7, 9} set_handicap places one black stone on the centre
\* of the board, (9,9), and the set of all handicap points is symmetric under
\* the reflections of the board.
C38_HandicapCentreAndSymmetry ==
    /\ \A n \in {5, 7, 9} : at(set_handicap(grid, n), Centre) = Black
    /\ LET points == set_handicap(grid, 9).black \ grid.black
       IN \A p \in points : Reflections(p) \subseteq points
\* ------------------------------------------------------------------------
\* C39 (specification SpecScenario): the loops end within their bounds
\* ------------------------------------------------------------------------

\* The number of positions the search of group_at pops for the group of a
\* stone
GroupPops(board, position) ==
    group_search_pops(board, at(board, position), <<position>>, {position},
                      0, Len(positions))

\* The number of passes of erode over the board
ErodePasses(board, st) == erode_loop(board, st, 0).passes

EmptyPositions(board) ==
    Len(positions) - Cardinality(board.black \cup board.white)

\* C39: the loops end within their bounds: the search of group_at pops each
\* position of the group once and no other; erode makes at most (number of
\* empty positions + 1) passes; the walk of get_state over the parents and
\* the replay take at most as many steps as items are stored, and no item
\* twice.
C39_LoopsEndWithinBounds ==
    /\ \A parent \in KnownPaths(data) :
          LET board == get_state(data, parent).board
          IN \A position \in board.black \cup board.white :
                /\ GroupPops(board, position)
                    = Cardinality(group_at(board, position).positions)
                /\ GroupPops(board, position) <= Len(positions)
    /\ LET board == get_state(data, cursor).board
       IN \A st \in {Black, White} :
            /\ ErodePasses(board, st) >= 1
            /\ ErodePasses(board, st) <= EmptyPositions(board) + 1
    /\ \A i \in 1..Len(data) :
          LET path == walk(data, i - 1, << >>)
          IN /\ Len(path) <= Len(data)
             /\ Len(path) = Cardinality(Range(path))
             /\ Len(path) = Len(Ancestry(data, HistoryItemId(i - 1)))

\* A chain of three items whose state holds a group of two stones; the
\* erosion of its board needs more than one pass
C39_Witness ==
    /\ cursor = HistoryItemId(2)
    /\ Len(walk(data, 2, << >>)) = 3
    /\ Cardinality(group_at(get_state(data, cursor).board,
                             <<3, 3>>).positions) = 2
    /\ ErodePasses(get_state(data, cursor).board, Black) >= 2
\* ------------------------------------------------------------------------
\* C40 (specification Spec): the parent links
\* ------------------------------------------------------------------------

\* C40: in every tree built by insert from the Paths it returned, the parent
\* of each stored item is the root or an item stored strictly earlier
\* (parent index < own index), so following the parents from any item ends at
\* the root, and every stored action passes the test against the state at
\* its parent.
C40_ParentsAreEarlierAndTested ==
    \A i \in 1..Len(data) :
        LET item == data[i]
        IN /\ \/ item.parent = PathEmpty
              \/ /\ item.parent[1] = "HistoryItemId"
                 /\ item.parent[2] \in 0..(Len(data) - 1)
                 /\ item.parent[2] < i - 1
           /\ Len(Ancestry(data, HistoryItemId(i - 1))) <= i
           /\ Accepted(item.action, get_state(data, item.parent))

\* A tree of three items in which the first has two children
C40_Witness ==
    /\ Len(data) = 3
    /\ data[1].parent = PathEmpty
    /\ data[2].parent = HistoryItemId(0)
    /\ data[3].parent = HistoryItemId(0)
    /\ data[2].action # data[3].action

=============================================================================
